---- MODULE Spec2Model ----
(***************************************************************************)
(* Block light engine of feather (server/src/lighting.rs): the chunk       *)
(* caching Context, opaque_non_emitting_removal (algorithm #4),            *)
(* flood_fill and adjacent_blocks.                                         *)
(*                                                                         *)
(* Block positions are triples <<x, y, z>>, chunk positions pairs          *)
(* <<x, z>>.  The chunk map is a function from the loaded chunk positions  *)
(* to chunks; a chunk holds its position, its light grid and its blocks.   *)
(***************************************************************************)
EXTENDS Integers, Sequences, FiniteSets, TLC

VARIABLES
    chunk_map,      \* ChunkMap: loaded chunk position -> Chunk
    current_chunk,  \* Context.current_chunk: the chunk the pointer refers to
    failed,         \* TRUE once a call has panicked
    op,             \* the last call issued: [name, pos, value]
    ret,            \* what the last call returned
    grid,           \* the grid coordinates the last call handed to a Chunk
    pc,             \* flood_fill: position in the function
    start,          \* flood_fill: argument start
    max_dist,       \* flood_fill: argument max_dist
    touched,        \* flood_fill: HashSet touched
    queue,          \* flood_fill: VecDeque queue
    finished,       \* flood_fill: flag finished
    pos,            \* flood_fill: the position popped from the queue
    blocks,         \* flood_fill: the neighbors of pos still to be iterated
    visits,         \* the positions func was invoked on, in order
    enqueued,       \* the positions pushed to the queue inside the loop
    expanded        \* the positions whose neighbors were iterated

ctxVars  == <<chunk_map, current_chunk, failed>>
callVars == <<op, ret, grid>>
fillVars == <<pc, start, max_dist, touched, queue, finished, pos, blocks,
              visits, enqueued, expanded>>
vars     == <<ctxVars, callVars, fillVars>>

----------------------------------------------------------------------------
(* Program constants *)

\* lowest vertical coordinate adjacent_blocks keeps
MinY == 0
\* highest vertical coordinate adjacent_blocks keeps
MaxY == 256
\* horizontal width of a chunk
ChunkWidth == 16
\* highest light level a chunk stores
MaxLight == 15
\* largest max_dist a u8 holds
MaxU8 == 255

----------------------------------------------------------------------------
(* Bounds of the model *)

\* flood_fill is called with max_dist in 0..MaxDistBound
MaxDistBound == 3
\* a block layout holds at most MaxOpaque opaque blocks
MaxOpaque == 2

None == <<>>

Abs(n) == IF n < 0 THEN 0 - n ELSE n

----------------------------------------------------------------------------
(* Positions, chunks and blocks *)

BlockPosition(x, y, z) == <<x, y, z>>

ChunkPosition(x, z) == <<x, z>>

\* BlockPosition::chunk_pos: the chunk owning a block position
chunk_pos(p) == ChunkPosition(p[1] \div ChunkWidth, p[3] \div ChunkWidth)

\* chunk_relative_pos: the offset of a block position from its chunk's origin
chunk_relative_pos(p) == <<p[1] % ChunkWidth, p[2], p[3] % ChunkWidth>>

\* BlockPosition::manhattan_distance
manhattan_distance(a, b) == Abs(a[1] - b[1]) + Abs(a[2] - b[2]) + Abs(a[3] - b[3])

\* the vertical extent of a chunk's grids
InGrid(y) == y >= MinY /\ y <= MaxY

is_opaque(block) == block = "Stone"

\* Chunk::new: a chunk with zeroed light and the given opaque cells.  The
\* light grid is kept sparse: it lists the cells holding a light above 0.
Chunk(cp, stone) == [position |-> cp, light |-> [c \in {} |-> 0], stone |-> stone]

\* the cells a chunk's grids hold; access to any other cell panics
ChunkHolds(c) == InGrid(c[2])

\* Chunk::block_light_at
ChunkBlockLightAt(chunk, c) == IF c \in DOMAIN chunk.light THEN chunk.light[c] ELSE 0

\* Chunk::set_block_light_at
ChunkSetBlockLightAt(chunk, c, value) ==
    LET cells == IF value = 0 THEN (DOMAIN chunk.light) \ {c}
                 ELSE (DOMAIN chunk.light) \cup {c}
    IN  [chunk EXCEPT !.light = [d \in cells |-> IF d = c THEN value ELSE chunk.light[d]]]

\* Chunk::block_at
ChunkBlockAt(chunk, c) == IF c \in chunk.stone THEN "Stone" ELSE "Air"

\* ChunkMap::chunk_at_mut: the key of the chunk loaded at cp, if any
MapChunkAtMut(map, cp) == IF cp \in DOMAIN map THEN cp ELSE None

\* ChunkMap::set_chunk_at for every chunk of loaded: the chunk map of a world
\* whose opaque blocks are at the positions of stones
World(loaded, stones) ==
    [cp \in loaded |->
        Chunk(cp, {chunk_relative_pos(p) :
                      p \in {q \in stones : chunk_pos(q) = cp /\ InGrid(q[2])}})]

----------------------------------------------------------------------------
(* Context *)

\* chunk_at_mut_miss answering a failed lookup with the cached chunk
chunk_at_mut_miss_stale(map, cur, cp) ==
    LET found == MapChunkAtMut(map, cp)
    IN  IF found = None THEN [chunk |-> cur, cur |-> cur]
        ELSE [chunk |-> found, cur |-> found]

\* Context::chunk_at_mut, on a miss of the cached chunk (lines 76-81): one
\* lookup in the chunk map; the pointer moves only when a chunk was found
chunk_at_mut_miss(map, cur, cp) ==
    LET found == MapChunkAtMut(map, cp)
    IN  IF found = None THEN [chunk |-> None, cur |-> cur]
        ELSE [chunk |-> found, cur |-> found]

\* chunk_at_mut without the comparison of positions: the cached chunk, always
chunk_at_mut_cached(map, cur, cp) == [chunk |-> cur, cur |-> cur]

\* Context::chunk_at_mut: the chunk at cp, or None, and the pointer afterwards
chunk_at_mut(map, cur, cp) ==
    IF cp = map[cur].position THEN [chunk |-> cur, cur |-> cur]
    ELSE chunk_at_mut_miss(map, cur, cp)

\* Context::block_light_at: [val, cur, grid, ok]
block_light_at(map, cur, p) ==
    LET r == chunk_at_mut(map, cur, chunk_pos(p))
        c == chunk_relative_pos(p)
    IN  IF r.chunk = None
        THEN [val |-> 0, cur |-> r.cur, grid |-> None, ok |-> TRUE]
        ELSE [val  |-> IF ChunkHolds(c) THEN ChunkBlockLightAt(map[r.chunk], c) ELSE 0,
              cur  |-> r.cur,
              grid |-> <<r.chunk, c>>,
              ok   |-> ChunkHolds(c)]

\* set_block_light_at writing into the chunk after zeroing its light
set_block_light_at_zeroing(map, cur, p, value) ==
    LET r == chunk_at_mut(map, cur, chunk_pos(p))
        c == chunk_relative_pos(p)
    IN  IF r.chunk = None
        THEN [map |-> map, cur |-> r.cur, grid |-> None, ok |-> TRUE]
        ELSE [map  |-> IF ChunkHolds(c)
                       THEN [map EXCEPT ![r.chunk] =
                                ChunkSetBlockLightAt(Chunk(@.position, @.stone), c, value)]
                       ELSE map,
              cur  |-> r.cur,
              grid |-> <<r.chunk, c>>,
              ok   |-> ChunkHolds(c)]

\* Context::set_block_light_at: [map, cur, grid, ok]
set_block_light_at(map, cur, p, value) ==
    LET r == chunk_at_mut(map, cur, chunk_pos(p))
        c == chunk_relative_pos(p)
    IN  IF r.chunk = None
        THEN [map |-> map, cur |-> r.cur, grid |-> None, ok |-> TRUE]
        ELSE [map  |-> IF ChunkHolds(c)
                       THEN [map EXCEPT ![r.chunk] = ChunkSetBlockLightAt(@, c, value)]
                       ELSE map,
              cur  |-> r.cur,
              grid |-> <<r.chunk, c>>,
              ok   |-> ChunkHolds(c)]

\* Context::block_at: [val, cur, grid, ok]
block_at(map, cur, p) ==
    LET r == chunk_at_mut(map, cur, chunk_pos(p))
        c == chunk_relative_pos(p)
    IN  IF r.chunk = None
        THEN [val |-> "Air", cur |-> r.cur, grid |-> None, ok |-> TRUE]
        ELSE [val  |-> IF ChunkHolds(c) THEN ChunkBlockAt(map[r.chunk], c) ELSE "Air",
              cur  |-> r.cur,
              grid |-> <<r.chunk, c>>,
              ok   |-> ChunkHolds(c)]

----------------------------------------------------------------------------
(* adjacent_blocks *)

offsets == << <<-1, 0, 0>>, <<1, 0, 0>>, <<0, -1, 0>>, <<0, 1, 0>>, <<0, 0, -1>>, <<0, 0, 1>> >>

\* the filter of adjacent_blocks
KeepsY(p) == p[2] >= MinY /\ p[2] <= MaxY

\* adjacent_blocks with the position itself among its neighbors
adjacent_blocks_with_self(to) ==
    SelectSeq(<<to>> \o [i \in 1..6 |-> BlockPosition(to[1] + offsets[i][1],
                                                      to[2] + offsets[i][2],
                                                      to[3] + offsets[i][3])],
              KeepsY)

\* adjacent_blocks: the six axis-aligned neighbors, those outside the
\* vertical bound dropped
adjacent_blocks(to) ==
    SelectSeq([i \in 1..6 |-> BlockPosition(to[1] + offsets[i][1],
                                            to[2] + offsets[i][2],
                                            to[3] + offsets[i][3])],
              KeepsY)

----------------------------------------------------------------------------
(* opaque_non_emitting_removal *)

Max2(a, b) == IF a >= b THEN a ELSE b

\* adjacent.into_iter().map(|pos| context.block_light_at(pos)).max(): the
\* reads go through the context one after the other; [some, max, cur]
RECURSIVE MaxLightOf(_, _, _)
MaxLightOf(map, cur, adjacent) ==
    IF adjacent = << >> THEN [some |-> FALSE, max |-> 0, cur |-> cur]
    ELSE LET r    == block_light_at(map, cur, Head(adjacent))
             rest == MaxLightOf(map, r.cur, Tail(adjacent))
         IN  [some |-> TRUE,
              max  |-> IF rest.some THEN Max2(r.val, rest.max) ELSE r.val,
              cur  |-> rest.cur]

\* Decrement without the test: 0 goes below 0
DecrementUnchecked(value) == value - 1

\* Decrement without the test, in u8 arithmetic: 0 wraps to 255
DecrementWrapping(value) == (value - 1) % (MaxU8 + 1)

\* if value > 0 { value -= 1 }
Decrement(value) == IF value > 0 THEN value - 1 ELSE value

\* opaque_non_emitting_removal: [map, cur, grid, ok, read, some, value]
opaque_non_emitting_removal(map, cur, position) ==
    LET adjacent == adjacent_blocks(position)
        m        == MaxLightOf(map, cur, adjacent)
    IN  IF ~m.some
        THEN \* unwrap() of None
             [map |-> map, cur |-> m.cur, grid |-> None, ok |-> FALSE,
              read |-> adjacent, some |-> FALSE, value |-> None]
        ELSE LET value == Decrement(m.max)
                 w     == set_block_light_at(map, m.cur, position, value)
             IN  [map |-> w.map, cur |-> w.cur, grid |-> w.grid, ok |-> w.ok,
                  read |-> adjacent, some |-> TRUE, value |-> value]

----------------------------------------------------------------------------
(* The inputs of the model *)

\* the chunk maps a Context is built over
LoadedChoices == { {<<0, 0>>}, {<<0, 0>>, <<-1, 0>>} }

\* the opaque blocks of the world the accessor calls run in
AccessStones == { <<1, 1, 0>>, <<-1, 1, 0>> }

\* chunk positions looked up through the context
LookupChunks == { <<0, 0>>, <<-1, 0>>, <<0, -1>> }

\* positions read through the context
ReadPositions == { <<0, 1, 0>>, <<-1, 1, 0>>, <<0, -1, 0>>, <<-1, 257, 0>> }

\* positions and values written through the context
WritePositions == { <<1, 1, 0>>, <<-1, 1, 0>>, <<0, 255, 0>>, <<0, 257, 0>>, <<-1, -1, 0>> }
WriteValues == { 0, MaxLight }

\* positions opaque_non_emitting_removal is called on
RemovalPositions == { <<0, 1, 0>>, <<-1, 1, 0>>, <<0, 256, 0>>,
                      <<0, -1, 0>>, <<0, -2, 0>>, <<-1, 258, 0>> }

----------------------------------------------------------------------------
(* The accessor calls and algorithm #4, each one call on the context *)

Idle == /\ pc = "idle"
        /\ start = None
        /\ max_dist = 0
        /\ touched = {}
        /\ queue = << >>
        /\ finished = FALSE
        /\ pos = None
        /\ blocks = << >>
        /\ visits = << >>
        /\ enqueued = {}
        /\ expanded = {}

\* Context::new(chunk_map, start_chunk) over a world with zeroed light
InitLight ==
    /\ \E loaded \in LoadedChoices :
          /\ chunk_map = World(loaded, AccessStones)
          /\ \E start_chunk \in loaded : current_chunk = MapChunkAtMut(chunk_map, start_chunk)
    /\ failed = FALSE
    /\ op = [name |-> "new"]
    /\ ret = None
    /\ grid = None
    /\ Idle

ChunkAtMut(cp) ==
    /\ ~failed
    /\ LET r == chunk_at_mut(chunk_map, current_chunk, cp)
       IN  /\ current_chunk' = r.cur
           /\ ret' = IF r.chunk = None THEN None ELSE chunk_map[r.chunk].position
    /\ op' = [name |-> "chunk_at_mut", pos |-> cp]
    /\ grid' = None
    /\ UNCHANGED <<chunk_map, failed, fillVars>>

BlockLightAt(p) ==
    /\ ~failed
    /\ LET r == block_light_at(chunk_map, current_chunk, p)
       IN  /\ current_chunk' = r.cur
           /\ failed' = ~r.ok
           /\ ret' = IF r.ok THEN r.val ELSE None
           /\ grid' = r.grid
    /\ op' = [name |-> "block_light_at", pos |-> p]
    /\ UNCHANGED <<chunk_map, fillVars>>

SetBlockLightAt(p, value) ==
    /\ ~failed
    /\ LET r == set_block_light_at(chunk_map, current_chunk, p, value)
       IN  /\ chunk_map' = r.map
           /\ current_chunk' = r.cur
           /\ failed' = ~r.ok
           /\ grid' = r.grid
    /\ ret' = None
    /\ op' = [name |-> "set_block_light_at", pos |-> p, value |-> value]
    /\ UNCHANGED fillVars

BlockAt(p) ==
    /\ ~failed
    /\ LET r == block_at(chunk_map, current_chunk, p)
       IN  /\ current_chunk' = r.cur
           /\ failed' = ~r.ok
           /\ ret' = IF r.ok THEN r.val ELSE None
           /\ grid' = r.grid
    /\ op' = [name |-> "block_at", pos |-> p]
    /\ UNCHANGED <<chunk_map, fillVars>>

OpaqueNonEmittingRemoval(p) ==
    /\ ~failed
    /\ LET r == opaque_non_emitting_removal(chunk_map, current_chunk, p)
       IN  /\ chunk_map' = r.map
           /\ current_chunk' = r.cur
           /\ failed' = ~r.ok
           /\ grid' = r.grid
           /\ ret' = [read |-> r.read, some |-> r.some, value |-> r.value]
    /\ op' = [name |-> "opaque_non_emitting_removal", pos |-> p]
    /\ UNCHANGED fillVars

NextLight ==
    \/ \E cp \in LookupChunks : ChunkAtMut(cp)
    \/ \E p \in ReadPositions : BlockLightAt(p)
    \/ \E p \in WritePositions, value \in WriteValues : SetBlockLightAt(p, value)
    \/ \E p \in ReadPositions : BlockAt(p)
    \/ \E p \in RemovalPositions : OpaqueNonEmittingRemoval(p)

SpecLight == InitLight /\ [][NextLight]_vars

----------------------------------------------------------------------------
(* flood_fill, one step per loop iteration and per neighbor *)

\* the start positions flood_fill is called on
Starts == { <<0, 100, 0>>, <<0, 0, 0>>, <<-1, 256, 0>>, <<0, -1, 0>> }

\* where, relative to start, a layout may hold an opaque block
StoneOffsets == { <<0, 0, 0>>, <<-1, 0, 0>>, <<1, 0, 0>>, <<0, 1, 0>>, <<-1, -1, 0>>, <<0, 0, 2>> }

Layouts == { l \in SUBSET StoneOffsets : Cardinality(l) <= MaxOpaque }

Shift(p, o) == BlockPosition(p[1] + o[1], p[2] + o[2], p[3] + o[3])

\* TooFar with the bound off by one: a neighbor one step beyond max_dist passes
TooFarLax(n, s, md) == manhattan_distance(n, s) > md + 1

\* TooFar with >= for >: a neighbor at exactly max_dist is refused
TooFarStrict(n, s, md) == manhattan_distance(n, s) >= md

\* if pos.manhattan_distance(start) > max_dist as i32
TooFar(n, s, md) == manhattan_distance(n, s) > md

\* AlreadyTouched without the set: every position counts as new
AlreadyTouchedNever(n, t) == FALSE

\* !touched.insert(pos): the position was in the set already
AlreadyTouched(n, t) == n \in t

\* StopsAt without the test of the block: nothing stops the iteration
StopsAtNothing(block) == FALSE

\* if block.is_opaque() { return; }
StopsAt(block) == is_opaque(block)

\* PopFront reading the front of the queue without removing it
PopFrontKeep(q) == q

\* queue.pop_front(): the queue without its first position
PopFront(q) == Tail(q)

\* PushBack pushing to the front: the queue becomes a stack
PushFront(q, p) == <<p>> \o q

\* queue.push_back(pos)
PushBack(q, p) == Append(q, p)

\* TouchedAtStart leaving start out of the set: start counts as new later
TouchedAtStartEmpty(s) == {}

\* touched.insert(start): the set of touched positions starts as {start}
TouchedAtStart(s) == {s}

\* a world, a context on it and the arguments of one call of flood_fill
InitFill ==
    /\ \E s \in Starts, md \in 0..MaxDistBound, l \in Layouts, loaded \in LoadedChoices :
          /\ start = s
          /\ max_dist = md
          /\ md <= MaxU8
          /\ chunk_map = World(loaded, {Shift(s, o) : o \in l})
          /\ \E start_chunk \in loaded : current_chunk = MapChunkAtMut(chunk_map, start_chunk)
    /\ failed = FALSE
    /\ op = [name |-> "flood_fill"]
    /\ ret = None
    /\ grid = None
    /\ pc = "start"
    /\ touched = {}
    /\ queue = << >>
    /\ finished = FALSE
    /\ pos = None
    /\ blocks = << >>
    /\ visits = << >>
    /\ enqueued = {}
    /\ expanded = {}

\* lines 139-149: touched.insert(start); queue.push_back(start); finished = false
Begin ==
    /\ pc = "start"
    /\ touched' = TouchedAtStart(start)
    /\ queue' = <<start>>
    /\ finished' = FALSE
    /\ pc' = "pop"
    /\ UNCHANGED <<ctxVars, callVars, start, max_dist, pos, blocks, visits, enqueued, expanded>>

\* line 151: queue.pop_front() is None, the loop ends
PopNone ==
    /\ pc = "pop"
    /\ queue = << >>
    /\ pc' = "done"
    /\ UNCHANGED <<ctxVars, callVars, start, max_dist, touched, queue, finished, pos,
                   blocks, visits, enqueued, expanded>>

\* lines 151-154: a position is popped and finished is set: break
PopBreak ==
    /\ pc = "pop"
    /\ queue # << >>
    /\ finished
    /\ pos' = Head(queue)
    /\ queue' = PopFront(queue)
    /\ pc' = "done"
    /\ UNCHANGED <<ctxVars, callVars, start, max_dist, touched, finished, blocks,
                   visits, enqueued, expanded>>

\* lines 151-156: a position is popped and its neighbors are taken
PopExpand ==
    /\ pc = "pop"
    /\ queue # << >>
    /\ ~finished
    /\ pos' = Head(queue)
    /\ queue' = PopFront(queue)
    /\ blocks' = adjacent_blocks(Head(queue))
    /\ expanded' = expanded \cup {Head(queue)}
    /\ pc' = "each"
    /\ UNCHANGED <<ctxVars, callVars, start, max_dist, touched, finished, visits, enqueued>>

\* lines 159-163: the neighbor is further than max_dist
EachTooFar ==
    /\ pc = "each"
    /\ blocks # << >>
    /\ TooFar(Head(blocks), start, max_dist)
    /\ finished' = TRUE
    /\ blocks' = Tail(blocks)
    /\ UNCHANGED <<ctxVars, callVars, pc, start, max_dist, touched, queue, pos,
                   visits, enqueued, expanded>>

\* lines 166-168: the neighbor was touched before
EachTouched ==
    /\ pc = "each"
    /\ blocks # << >>
    /\ ~TooFar(Head(blocks), start, max_dist)
    /\ AlreadyTouched(Head(blocks), touched)
    /\ blocks' = Tail(blocks)
    /\ UNCHANGED <<ctxVars, callVars, pc, start, max_dist, touched, queue, finished, pos,
                   visits, enqueued, expanded>>

\* lines 166-173: the neighbor is new and holds an opaque block
EachOpaque ==
    /\ pc = "each"
    /\ blocks # << >>
    /\ ~failed
    /\ ~TooFar(Head(blocks), start, max_dist)
    /\ ~AlreadyTouched(Head(blocks), touched)
    /\ LET r == block_at(chunk_map, current_chunk, Head(blocks))
       IN  /\ r.ok => StopsAt(r.val)
           /\ current_chunk' = r.cur
           /\ failed' = ~r.ok
    /\ touched' = touched \cup {Head(blocks)}
    /\ blocks' = Tail(blocks)
    /\ UNCHANGED <<chunk_map, callVars, pc, start, max_dist, queue, finished, pos,
                   visits, enqueued, expanded>>

\* lines 166-179: the neighbor is new and not opaque: func is called on it
\* and it is pushed to the queue
EachVisit ==
    /\ pc = "each"
    /\ blocks # << >>
    /\ ~failed
    /\ ~TooFar(Head(blocks), start, max_dist)
    /\ ~AlreadyTouched(Head(blocks), touched)
    /\ LET r == block_at(chunk_map, current_chunk, Head(blocks))
       IN  /\ r.ok
           /\ ~StopsAt(r.val)
           /\ current_chunk' = r.cur
    /\ touched' = touched \cup {Head(blocks)}
    /\ visits' = Append(visits, Head(blocks))
    /\ queue' = PushBack(queue, Head(blocks))
    /\ enqueued' = enqueued \cup {Head(blocks)}
    /\ blocks' = Tail(blocks)
    /\ UNCHANGED <<chunk_map, failed, callVars, pc, start, max_dist, finished, pos, expanded>>

\* line 180: for_each has gone over every neighbor
EachEnd ==
    /\ pc = "each"
    /\ blocks = << >>
    /\ pc' = "pop"
    /\ UNCHANGED <<ctxVars, callVars, start, max_dist, touched, queue, finished, pos,
                   blocks, visits, enqueued, expanded>>

Next ==
    \/ Begin
    \/ PopNone
    \/ PopBreak
    \/ PopExpand
    \/ EachTooFar
    \/ EachTouched
    \/ EachOpaque
    \/ EachVisit
    \/ EachEnd

Spec == InitFill /\ [][Next]_vars

\* flood_fill runs on its caller's thread with nothing to wait for: a step
\* that can be taken is taken
FairSpec == Spec /\ WF_vars(Next)

----------------------------------------------------------------------------
(* Properties of flood_fill *)

Range(seq) == {seq[i] : i \in DOMAIN seq}

\* the block at p is opaque, read from the chunk map itself
OpaqueAt(p) ==
    /\ chunk_pos(p) \in DOMAIN chunk_map
    /\ chunk_relative_pos(p) \in chunk_map[chunk_pos(p)].stone

\* the positions within Manhattan distance d of p
Ball(p, d) ==
    {q \in {Shift(p, <<dx, dy, dz>>) : dx \in (0 - d)..d, dy \in (0 - d)..d, dz \in (0 - d)..d} :
        manhattan_distance(q, p) <= d}

\* C1: one call of flood_fill invokes the visitor at most once on any block
\* position.
VisitedOnce == \A i, j \in DOMAIN visits : visits[i] = visits[j] => i = j

\* a position the visitor was invoked on is reached again and skipped
VisitedOnceWitness ==
    /\ pc = "each"
    /\ blocks # << >>
    /\ Head(blocks) \in Range(visits)
    /\ Len(visits) >= 6

\* C2: flood_fill never invokes the visitor on, and never enqueues, a position
\* whose Manhattan distance from start is greater than max_dist.
WithinMaxDist ==
    \A p \in Range(visits) \cup enqueued \cup Range(queue) :
        manhattan_distance(p, start) <= max_dist

\* a neighbor beyond max_dist was met after positions at max_dist were visited
WithinMaxDistWitness ==
    /\ finished
    /\ max_dist >= 1
    /\ \E p \in Range(visits) : manhattan_distance(p, start) = max_dist

\* no block within max_dist of start is opaque and every such position is
\* inside the vertical bound
OpenSpace ==
    /\ start # None
    /\ start[2] - max_dist >= MinY
    /\ start[2] + max_dist <= MaxY
    /\ \A p \in Ball(start, max_dist) : ~OpaqueAt(p)

\* C3: in open space inside the vertical bound flood_fill invokes the visitor
\* exactly once on every position at Manhattan distance 1..max_dist from start
\* and on no other position, loaded or not: 6 positions for max_dist = 1, none
\* for max_dist = 0.
OpenSpaceVisitsBall ==
    (pc = "done" /\ OpenSpace) =>
        /\ Range(visits) = Ball(start, max_dist) \ {start}
        /\ Len(visits) = Cardinality(Ball(start, max_dist)) - 1
        /\ (max_dist = 1 => Len(visits) = 6)
        /\ (max_dist = 0 => Len(visits) = 0)

\* the call of the test (max_dist = 1, six visits), with neighbors in a chunk
\* that is not loaded
OpenSpaceVisitsBallWitness ==
    /\ pc = "done"
    /\ OpenSpace
    /\ max_dist = 1
    /\ Len(visits) = 6
    /\ \E p \in Range(visits) : chunk_pos(p) \notin DOMAIN chunk_map

\* C4 as stated: the visitor is never invoked on an opaque position, and the
\* neighbors of an opaque position are never expanded, the start included.
NeverThroughOpaque ==
    /\ \A p \in Range(visits) : ~OpaqueAt(p)
    /\ \A p \in expanded : ~OpaqueAt(p)

\* C4 as amended: the visitor is never invoked on an opaque position, and the
\* neighbors of an opaque position other than start are never expanded.
NeverThroughOpaqueButStart ==
    /\ \A p \in Range(visits) : ~OpaqueAt(p)
    /\ \A p \in expanded \ {start} : ~OpaqueAt(p)

\* the fill is over, it met an opaque position next to the start and visited
\* positions beyond it
NeverThroughOpaqueWitness ==
    /\ pc = "done"
    /\ \E p \in touched \ {start} :
          /\ OpaqueAt(p)
          /\ manhattan_distance(p, start) = 1
          /\ p \notin expanded
    /\ \E p \in Range(visits) : manhattan_distance(p, start) = 2

----------------------------------------------------------------------------
(* Properties of the context and of opaque_non_emitting_removal *)

Loaded(map, p) == chunk_pos(p) \in DOMAIN map

\* the light stored at p, read from the chunk map itself; 0 where no chunk is
\* loaded
StoredLight(map, p) ==
    IF Loaded(map, p) /\ chunk_relative_pos(p) \in DOMAIN map[chunk_pos(p)].light
    THEN map[chunk_pos(p)].light[chunk_relative_pos(p)]
    ELSE 0

\* the axis-aligned neighbors of p inside the vertical bound
Neighbors(p) ==
    {q \in {Shift(p, <<1, 0, 0>>), Shift(p, <<-1, 0, 0>>), Shift(p, <<0, 1, 0>>),
            Shift(p, <<0, -1, 0>>), Shift(p, <<0, 0, 1>>), Shift(p, <<0, 0, -1>>)} :
        q[2] \in MinY..MaxY}

\* the highest light among the neighbors of p
NeighborMax(map, p) ==
    CHOOSE m \in 0..MaxLight :
        /\ \E q \in Neighbors(p) : StoredLight(map, q) = m
        /\ \A q \in Neighbors(p) : StoredLight(map, q) <= m

\* every stored light value, in every chunk
StoredLights(map) == UNION {{map[cp].light[c] : c \in DOMAIN map[cp].light} : cp \in DOMAIN map}

\* C5: after opaque_non_emitting_removal(position), position in a loaded chunk
\* and inside the vertical bound, the light at position is max(m - 1, 0), m the
\* highest light of its neighbors inside the vertical bound (0 for a neighbor
\* in a chunk that is not loaded), whatever light position held before.
RemovalSetsMaxMinusOne ==
    [][(/\ op'.name = "opaque_non_emitting_removal"
        /\ Loaded(chunk_map, op'.pos)
        /\ op'.pos[2] \in MinY..MaxY)
       => (/\ ~failed'
           /\ StoredLight(chunk_map', op'.pos) = Max2(NeighborMax(chunk_map, op'.pos) - 1, 0)
           /\ StoredLight(chunk_map', op'.pos) >= 0)]_vars

\* a removal between a dark neighbor and, across the chunk border, a bright
\* one that earlier removals have lit
RemovalSetsMaxMinusOneWitness ==
    /\ op.name = "opaque_non_emitting_removal"
    /\ op.pos = <<0, 1, 0>>
    /\ ~failed
    /\ StoredLight(chunk_map, <<-1, 1, 0>>) = MaxLight - 2
    /\ StoredLight(chunk_map, <<1, 1, 0>>) = 0
    /\ StoredLight(chunk_map, op.pos) = MaxLight - 3

\* C6: every stored light value stays in 0..15 through any sequence of
\* opaque_non_emitting_removal calls on a world whose lights are in 0..15.
LightInRange == \A v \in StoredLights(chunk_map) : v \in 0..MaxLight

\* a removal whose neighbors are all dark has run after removals that spread
\* light over two chunks
LightInRangeWitness ==
    /\ op.name = "opaque_non_emitting_removal"
    /\ ~failed
    /\ ret.some
    /\ ret.value = 0
    /\ {MaxLight - 2, MaxLight - 3} \subseteq StoredLights(chunk_map)

\* what an accessor call answers when it goes to the chunk map with no cache
Direct(map, call) ==
    LET p == call.pos
        c == chunk_relative_pos(p)
    IN  CASE call.name = "chunk_at_mut" ->
               [ret |-> IF p \in DOMAIN map THEN map[p].position ELSE None,
                map |-> map, ok |-> TRUE]
          [] call.name = "block_light_at" ->
               IF ~Loaded(map, p) THEN [ret |-> 0, map |-> map, ok |-> TRUE]
               ELSE IF ~ChunkHolds(c) THEN [ret |-> None, map |-> map, ok |-> FALSE]
               ELSE [ret |-> StoredLight(map, p), map |-> map, ok |-> TRUE]
          [] call.name = "block_at" ->
               IF ~Loaded(map, p) THEN [ret |-> "Air", map |-> map, ok |-> TRUE]
               ELSE IF ~ChunkHolds(c) THEN [ret |-> None, map |-> map, ok |-> FALSE]
               ELSE [ret |-> ChunkBlockAt(map[chunk_pos(p)], c), map |-> map, ok |-> TRUE]
          [] call.name = "set_block_light_at" ->
               IF ~Loaded(map, p) THEN [ret |-> None, map |-> map, ok |-> TRUE]
               ELSE IF ~ChunkHolds(c) THEN [ret |-> None, map |-> map, ok |-> FALSE]
               ELSE [ret |-> None,
                     map |-> [map EXCEPT ![chunk_pos(p)] = ChunkSetBlockLightAt(@, c, call.value)],
                     ok  |-> TRUE]

AccessorCalls == {"chunk_at_mut", "block_light_at", "block_at", "set_block_light_at"}

\* C7: every chunk lookup, light read, light write and block read issued
\* through a Context answers and acts as the same call on the chunk map with
\* no cache; chunk_at_mut(pos) returns the chunk whose position is pos when one
\* is loaded and nothing otherwise.
CacheIsTransparent ==
    [][op'.name \in AccessorCalls
       => (/\ ret' = Direct(chunk_map, op').ret
           /\ chunk_map' = Direct(chunk_map, op').map
           /\ failed' = ~Direct(chunk_map, op').ok
           /\ (op'.name = "chunk_at_mut" /\ ret' # None => ret' = op'.pos))]_vars

\* a lookup of a chunk that is not loaded has answered nothing while the cache
\* holds the chunk of an earlier lookup, in a world that holds light
CacheIsTransparentWitness ==
    /\ op.name = "chunk_at_mut"
    /\ op.pos \notin DOMAIN chunk_map
    /\ ret = None
    /\ current_chunk = <<-1, 0>>
    /\ StoredLights(chunk_map) # {}

\* C8: for a position whose chunk is not loaded block_light_at returns 0,
\* block_at returns air and set_block_light_at changes no stored light and
\* raises no error.
UnloadedIsDarkAir ==
    [][(op'.name \in {"block_light_at", "block_at", "set_block_light_at"}
        /\ ~Loaded(chunk_map, op'.pos))
       => (/\ ~failed'
           /\ chunk_map' = chunk_map
           /\ (op'.name = "block_light_at" => ret' = 0)
           /\ (op'.name = "block_at" => ret' = "Air" /\ ~is_opaque(ret')))]_vars

\* a write of the highest light to a position of a chunk that is not loaded,
\* in a world that holds light elsewhere
UnloadedIsDarkAirWitness ==
    /\ op.name = "set_block_light_at"
    /\ ~Loaded(chunk_map, op.pos)
    /\ op.value = MaxLight
    /\ ~failed
    /\ StoredLights(chunk_map) # {}

\* C9: for a position whose vertical coordinate is outside 0..=256 the
\* accessor answers as for a chunk that is not loaded: block_light_at returns
\* 0, block_at returns air, set_block_light_at is a no-op, no call fails and no
\* chunk's grid is touched; so also for opaque_non_emitting_removal on such a
\* position.
OutOfBoundIsDarkAir ==
    [][(op'.name \in {"block_light_at", "block_at", "set_block_light_at",
                      "opaque_non_emitting_removal"}
        /\ op'.pos[2] \notin MinY..MaxY)
       => (/\ ~failed'
           /\ grid' = None
           /\ chunk_map' = chunk_map
           /\ (op'.name = "block_light_at" => ret' = 0)
           /\ (op'.name = "block_at" => ret' = "Air"))]_vars

\* C10: flood_fill never invokes the visitor on, and never enqueues, a
\* position whose vertical coordinate is outside 0..=256;
\* opaque_non_emitting_removal never reads the light of such a neighbor;
\* adjacent_blocks returns at least four positions, so the maximum over the
\* neighbors exists.
NeighborsInBoundAndEnough ==
    /\ \A p \in Range(visits) \cup enqueued : p[2] \in MinY..MaxY
    /\ op.name = "opaque_non_emitting_removal" =>
          /\ \A p \in Range(ret.read) : p[2] \in MinY..MaxY
          /\ Len(ret.read) >= 4
          /\ ret.some

----------------------------------------------------------------------------
(* Reachability, for the properties of propagation and of travel *)

\* the removal's propagation is examined up to PropagationBound steps away
PropagationBound == 2

Min2(a, b) == IF a <= b THEN a ELSE b

\* the positions reachable from s by a path of at most k axis-aligned steps
\* whose positions after s are non-opaque, inside the vertical bound and
\* within Manhattan distance md of s
RECURSIVE ReachFrom(_, _, _)
ReachFrom(s, k, md) ==
    IF k = 0 THEN {s}
    ELSE LET r == ReachFrom(s, k - 1, md)
         IN  r \cup {q \in UNION {Neighbors(p) : p \in r} :
                        ~OpaqueAt(q) /\ manhattan_distance(q, s) <= md}

\* C11: when opaque_non_emitting_removal(position) returns, having set the
\* light v at position, every non-opaque position reachable from position at
\* distance d <= v holds a light of at least v - d (algorithm #1 has run from
\* position).  Stated for the positions of loaded chunks up to
\* PropagationBound steps away.
RemovalPropagates ==
    (op.name = "opaque_non_emitting_removal" /\ ~failed /\ ret.some) =>
        \A d \in 0..Min2(ret.value, PropagationBound) :
            \A q \in ReachFrom(op.pos, d, d) :
                Loaded(chunk_map, q) => StoredLight(chunk_map, q) >= ret.value - d

\* C12: once flood_fill has met a neighbor further than max_dist from start
\* the traversal is over: the visitor is invoked on no further position and no
\* further position is enqueued.
StopsAtFirstTooFar ==
    [][finished => (visits' = visits /\ enqueued' = enqueued)]_vars

\* C13 as stated: every admitted position at Manhattan distance d from start
\* is visited before any admitted position at Manhattan distance d + 1.
VisitsInManhattanOrder ==
    \A i, j \in DOMAIN visits :
        manhattan_distance(visits[j], start) = manhattan_distance(visits[i], start) + 1
            => i < j

\* the paths of the traversal are followed up to max_dist + DetourBound steps
DetourBound == 2

\* the length of the shortest path from start to p through the positions
\* flood_fill admits (non-opaque, inside the vertical bound, within max_dist)
PathLength(p) ==
    CHOOSE k \in 0..(max_dist + DetourBound) :
        /\ p \in ReachFrom(start, k, max_dist)
        /\ k > 0 => p \notin ReachFrom(start, k - 1, max_dist)

\* C13: flood_fill invokes the visitor in order of path length, not of
\* Manhattan distance: a position is never visited before a position whose
\* shortest path from start through admitted positions is shorter.
VisitsInPathOrder ==
    pc = "done" =>
        /\ Range(visits) \subseteq ReachFrom(start, max_dist + DetourBound, max_dist)
        /\ \A i \in 1..(Len(visits) - 1) :
              PathLength(visits[i]) <= PathLength(visits[i + 1])

\* flood_fill has returned after visiting a position behind an opaque block
\* later than a position further from start in Manhattan distance
VisitsInPathOrderWitness ==
    /\ pc = "done"
    /\ \E i, j \in DOMAIN visits :
          /\ i < j
          /\ manhattan_distance(visits[j], start) < manhattan_distance(visits[i], start)
          /\ PathLength(visits[j]) > manhattan_distance(visits[j], start)

\* C14: every position the visitor is invoked on is reachable from start by a
\* path of at most max_dist axis-aligned steps through non-opaque positions
\* inside the vertical bound.
TravelsAtMostMaxDist ==
    pc = "done" => Range(visits) \subseteq ReachFrom(start, max_dist, max_dist)

\* C17: when flood_fill returns, the visitor has been invoked on every
\* non-opaque position other than start that a path of at most max_dist steps
\* through non-opaque positions inside the vertical bound reaches from start.
VisitsAllReachable ==
    pc = "done" => (ReachFrom(start, max_dist, max_dist) \ {start}) \subseteq Range(visits)

\* flood_fill has returned with the positions one step short of max_dist all
\* expanded, the finished flag set, and a position of the ball cut off from
\* start by opaque blocks
VisitsAllReachableWitness ==
    /\ pc = "done"
    /\ finished
    /\ max_dist >= 2
    /\ LET r == ReachFrom(start, max_dist, max_dist)
       IN  /\ \E p \in r : manhattan_distance(p, start) = max_dist /\ p \in Range(visits)
           /\ \E q \in Ball(start, max_dist) : ~OpaqueAt(q) /\ KeepsY(q) /\ q \notin r

\* C16: every call of flood_fill returns: the queue runs empty or the
\* finished flag breaks the loop, after finitely many visitor invocations.
Terminates == <>(pc = "done")

\* flood_fill has returned through the break, positions still in the queue,
\* after invoking the visitor
TerminatesWitness ==
    /\ pc = "done"
    /\ finished
    /\ queue # << >>
    /\ Len(visits) > 0

----------------------------------------------------------------------------
(* What opaque_non_emitting_removal changes *)

\* the positions at which a chunk map stores a light above 0
LitPositions(map) ==
    UNION {{BlockPosition(cp[1] * ChunkWidth + c[1], c[2], cp[2] * ChunkWidth + c[3]) :
               c \in DOMAIN map[cp].light} : cp \in DOMAIN map}

\* C15 as stated: the light at each position after the call is greater than
\* or equal to the light it held before the call.
RemovalNeverLowers ==
    [][(op'.name = "opaque_non_emitting_removal" /\ ~failed')
       => \A q \in LitPositions(chunk_map) :
             StoredLight(chunk_map', q) >= StoredLight(chunk_map, q)]_vars

\* C15: opaque_non_emitting_removal(position) lowers the light of no position
\* other than position; the light at position is overwritten, and is lowered
\* exactly when it held more than max(m - 1, 0), m the highest light of its
\* neighbors.
RemovalLowersOnlyAtPosition ==
    [][(op'.name = "opaque_non_emitting_removal" /\ ~failed')
       => \A q \in LitPositions(chunk_map) :
             (StoredLight(chunk_map', q) < StoredLight(chunk_map, q))
                 <=> (/\ q = op'.pos
                      /\ q[2] \in MinY..MaxY
                      /\ StoredLight(chunk_map, q) > Max2(NeighborMax(chunk_map, q) - 1, 0))]_vars

\* a removal has overwritten the light of a position whose neighbor across
\* the chunk border holds the 14 that an earlier removal took from it
RemovalLowersOnlyAtPositionWitness ==
    /\ op.name = "opaque_non_emitting_removal"
    /\ ~failed
    /\ op.pos = <<-1, 1, 0>>
    /\ ret.value = MaxLight - 2
    /\ StoredLight(chunk_map, <<0, 1, 0>>) = MaxLight - 1

====
